---------------------------- MODULE Spec2Model ----------------------------
(***************************************************************************)
(* A model of the CC13xx/CC26xx serial-bootloader flasher (src/sbl.c,      *)
(* src/serial.c): the ACK/NACK handshake, the command codec and the        *)
(* sbl_program_binary workflow, run against a transport whose reads and    *)
(* writes are chosen by the environment.                                   *)
(*                                                                         *)
(* The transport is modelled by what its calls return.  One call of a      *)
(* command function is given an "io" record: wok/rok say whether the       *)
(* serial_write_all of the command frame / of the reply-ACK succeeds, and  *)
(* reads is the sequence of results of the successive serial_read_timeout  *)
(* calls (RD_ERROR, RD_TIMEOUT or one received byte); once the sequence is *)
(* used up every further read times out (the device stays silent).  Every  *)
(* caller here reads into a loop that asks for the bytes still missing, so *)
(* delivering one byte per read loses no behaviour.                        *)
(*                                                                         *)
(* uint32_t values live in 0 .. Word-1, Word = 2^WordBits standing for     *)
(* 2^32; size_t values are unbounded naturals (they do not wrap in the     *)
(* ranges explored).                                                       *)
(***************************************************************************)
EXTENDS Bags, Integers, Sequences, FiniteSets, TLC

VARIABLES
    arg,        \* the arguments of sbl_program_binary
    dev,        \* the device the run talks to: "any" or "good"
    pc,         \* position of sbl_program_binary
    a,          \* erase loop: address counter (uint32_t)
    erase_len,  \* bytes to erase (uint32_t)
    total_len,  \* image length padded to 4 (size_t)
    off,        \* chunk loop: offset (size_t)
    st,         \* the status byte last decoded by the workflow
    ret,        \* return value of sbl_program_binary (2 = not returned)
    log,        \* what the call did: writes and command results, in order
    ack,        \* a stand-alone call of sbl_wait_ack: input and result
    perc,       \* sbl_program_binary: the percentage last recorded (uint32_t)
    progress,   \* the progress reports printed so far, in order
    call,       \* a stand-alone call of a codec function: input and result
    scan,       \* sbl_autobaud_scan: candidates, position, handles, result
    tool        \* main(): the command line, the handle it holds, its exit code

vars == <<arg, dev, pc, a, erase_len, total_len, off, st, ret, log, ack, perc, progress, call, scan, tool>>

---------------------------------------------------------------------------
(* Bounds of the model *)

WordBits == 16      \* width of uint32_t in the model (stands for 32)
MaxNoise == 1       \* noise bytes / silent slices before the ACK byte
MaxAckReads == 3    \* length of the read sequences given to sbl_wait_ack alone
MaxSilent == 6      \* longest run of silent poll slices given to it

(* Program constants *)

SBL_ACK == 204
SBL_NACK == 51
CMD_PING == 32
CMD_GET_CHIP_ID == 40
CMD_DOWNLOAD == 33
CMD_GET_STATUS == 35
CMD_SEND_DATA == 36
CMD_RESET == 37
CMD_SECTOR_ERASE == 38
COMMAND_RET_SUCCESS == 64
COMMAND_RET_FLASH_FAIL == 68
step_ms == 20
MaxChunk == 252
MaxPayload == 253
PadByte == 255
EraseTimeout == 5000
CmdTimeout == 1000
StatusTimeout == 500
EraseStatusTimeout == 1000

(* Results of serial_read_timeout other than a byte *)
RD_ERROR == -1
RD_TIMEOUT == -2

---------------------------------------------------------------------------
(* Arithmetic *)

RECURSIVE Pow2(_)
Pow2(n) == IF n = 0 THEN 1 ELSE 2 * Pow2(n - 1)

Word == Pow2(WordBits)

\* conversion to uint32_t
U32(x) == x % Word

\* x & y on naturals
RECURSIVE BitAnd(_, _)
BitAnd(x, y) ==
    IF x = 0 \/ y = 0 THEN 0
    ELSE (x % 2) * (y % 2) + 2 * BitAnd(x \div 2, y \div 2)

\* ~x on uint32_t
BitNot(x) == Word - 1 - x

Min(x, y) == IF x < y THEN x ELSE y

\* the sum of the elements of s: the size of the bag that holds every index i
\* of s s[i] times
SumSeq(s) == BagCardinality([i \in {j \in DOMAIN s : s[j] > 0} |-> s[i]])

\* the four big-endian bytes of a uint32_t
BE32(x) == << (x \div 16777216) % 256, (x \div 65536) % 256,
              (x \div 256) % 256, x % 256 >>

\* the value of four big-endian bytes
FromBE32(b) == b[1] * 16777216 + b[2] * 65536 + b[3] * 256 + b[4]

---------------------------------------------------------------------------
(* The transport *)

\* the result of the i-th serial_read_timeout of a call
Rd(reads, i) == IF i <= Len(reads) THEN reads[i] ELSE RD_TIMEOUT

\* read_exact_timeout: r = 1 (got len bytes), 0 (timeout), -1 (error);
\* next is the index of the first read not made
RECURSIVE ReadExactLoop(_, _, _, _)
ReadExactLoop(reads, i, len, buf) ==
    IF Len(buf) >= len THEN [r |-> 1, buf |-> buf, next |-> i]
    ELSE LET n == Rd(reads, i) IN
         IF n = RD_ERROR THEN [r |-> -1, buf |-> buf, next |-> i + 1]
         ELSE IF n = RD_TIMEOUT THEN [r |-> 0, buf |-> buf, next |-> i + 1]
         ELSE ReadExactLoop(reads, i + 1, len, Append(buf, n))

read_exact_timeout(reads, i, len) == ReadExactLoop(reads, i, len, <<>>)

---------------------------------------------------------------------------
(* sbl_wait_ack *)

\* the number of poll slices that take the counter from `waited` to timeout_ms
SlicesLeft(waited, timeout_ms) ==
    IF waited >= timeout_ms THEN 0
    ELSE (timeout_ms - waited + step_ms - 1) \div step_ms

\* the loop of sbl_wait_ack before its i-th read, `waited` ms on its counter;
\* n is the number of reads made.  Past the end of `reads` every read times
\* out, so the loop runs its remaining slices and gives up.
\* a loop whose budget is not charged for a slice that delivered a byte
RECURSIVE WaitAckLoopNoiseFree(_, _, _, _)
WaitAckLoopNoiseFree(reads, i, waited, timeout_ms) ==
    IF waited >= timeout_ms
    THEN [ret |-> -1, errno |-> "ETIMEDOUT", n |-> i - 1]
    ELSE IF i > Len(reads)
    THEN [ret |-> -1, errno |-> "ETIMEDOUT",
          n |-> i - 1 + SlicesLeft(waited, timeout_ms)]
    ELSE LET b == Rd(reads, i) IN
         IF b = RD_ERROR THEN [ret |-> -1, errno |-> "EIO", n |-> i]
         ELSE IF b = SBL_ACK THEN [ret |-> 0, errno |-> "", n |-> i]
         ELSE IF b = SBL_NACK THEN [ret |-> -1, errno |-> "EPROTO", n |-> i]
         ELSE WaitAckLoopNoiseFree(reads, i + 1,
                  IF b = RD_TIMEOUT THEN waited + step_ms ELSE waited,
                  timeout_ms)

RECURSIVE WaitAckLoop(_, _, _, _)
WaitAckLoop(reads, i, waited, timeout_ms) ==
    IF waited >= timeout_ms
    THEN [ret |-> -1, errno |-> "ETIMEDOUT", n |-> i - 1]
    ELSE IF i > Len(reads)
    THEN [ret |-> -1, errno |-> "ETIMEDOUT",
          n |-> i - 1 + SlicesLeft(waited, timeout_ms)]
    ELSE LET b == Rd(reads, i) IN
         IF b = RD_ERROR THEN [ret |-> -1, errno |-> "EIO", n |-> i]
         ELSE IF b = SBL_ACK THEN [ret |-> 0, errno |-> "", n |-> i]
         ELSE IF b = SBL_NACK THEN [ret |-> -1, errno |-> "EPROTO", n |-> i]
         ELSE WaitAckLoop(reads, i + 1, waited + step_ms, timeout_ms)

sbl_wait_ack(reads, timeout_ms) == WaitAckLoop(reads, 1, 0, timeout_ms)

---------------------------------------------------------------------------
(* sbl_send_cmd and the command functions *)

\* a checksum that is not reduced to a byte
checksum_sum_wide(data) == SumSeq(data)

checksum_sum(data) == SumSeq(data) % 256

\* One call of sbl_send_cmd.  out_max = 0 stands for out == NULL.
\* writes: the serial_write_all calls that succeeded, in order; nwrites: the
\* serial_write_all calls made; nreads: the serial_read_timeout calls made.
\* The frame is written (sbl.c 151) before the first read (155), the
\* reply-ACK (181) after the last.
sbl_send_cmd(data, out_max, timeout_ms, io) ==
    LET len   == Len(data)
        frame == << (len + 2) % 256, checksum_sum(data) >> \o data
        reply == <<0, SBL_ACK>>
        res(r, e, o, w, nw, nr) ==
            [ret |-> r, errno |-> e, out |-> o, writes |-> w,
             nwrites |-> nw, nreads |-> nr]
    IN
    IF len = 0 \/ len > MaxPayload THEN res(-1, "EINVAL", <<>>, <<>>, 0, 0)
    ELSE IF ~io.wok THEN res(-1, "EIO", <<>>, <<>>, 1, 0)
    ELSE
    LET k == sbl_wait_ack(io.reads, timeout_ms) IN
    IF k.ret # 0 THEN res(-1, k.errno, <<>>, <<frame>>, 1, k.n)
    ELSE IF out_max = 0
    THEN res(0, "", <<>>, <<frame>>, 1, k.n)
    ELSE
    LET s == read_exact_timeout(io.reads, k.n + 1, 1) IN
    IF ~(s.r > 0 /\ s.buf[1] # 0)
    THEN res(0, "", <<>>, <<frame>>, 1, s.next - 1)
    ELSE
    LET sz == s.buf[1]
        c  == read_exact_timeout(io.reads, s.next, 1)
    IN
    IF c.r <= 0 THEN res(-1, "EIO", <<>>, <<frame>>, 1, c.next - 1)
    ELSE IF sz < 2 \/ sz - 2 > out_max   \* (size_t)sz - 2 wraps for sz = 1
    THEN res(-1, "EMSGSIZE", <<>>, <<frame>>, 1, c.next - 1)
    ELSE
    LET p == read_exact_timeout(io.reads, c.next, sz - 2) IN
    IF p.r <= 0 THEN res(-1, "EIO", <<>>, <<frame>>, 1, p.next - 1)
    ELSE IF ~io.rok THEN res(-1, "EIO", <<>>, <<frame>>, 2, p.next - 1)
    ELSE IF checksum_sum(p.buf) # c.buf[1]
    THEN res(-1, "EPROTO", <<>>, <<frame, reply>>, 2, p.next - 1)
    ELSE res(sz - 2, "", p.buf, <<frame, reply>>, 2, p.next - 1)

\* sbl_get_status: st_in is *status_out before the call
sbl_get_status(timeout_ms, st_in, io) ==
    LET n == sbl_send_cmd(<<CMD_GET_STATUS>>, 1, timeout_ms, io) IN
    IF n.ret < 0 THEN [ret |-> -1, st |-> st_in, n |-> n.ret, writes |-> n.writes]
    ELSE IF n.ret = 1 THEN [ret |-> 0, st |-> n.out[1], n |-> 1, writes |-> n.writes]
    ELSE [ret |-> 0, st |-> st_in, n |-> n.ret, writes |-> n.writes]

sbl_reset(timeout_ms, io) == sbl_send_cmd(<<CMD_RESET>>, 0, timeout_ms, io)

sbl_download(addr, len, timeout_ms, io) ==
    sbl_send_cmd(<<CMD_DOWNLOAD>> \o BE32(addr) \o BE32(len), 0, timeout_ms, io)

sbl_sector_erase(addr, timeout_ms, io) ==
    sbl_send_cmd(<<CMD_SECTOR_ERASE>> \o BE32(addr), 0, timeout_ms, io)

\* sbl_send_data without its length check
sbl_send_data_unchecked(chunk, timeout_ms, io) ==
    sbl_send_cmd(<<CMD_SEND_DATA>> \o chunk, 0, timeout_ms, io)

sbl_send_data(chunk, timeout_ms, io) ==
    IF Len(chunk) = 0 \/ Len(chunk) > MaxChunk
    THEN [ret |-> -1, errno |-> "EINVAL", out |-> <<>>, writes |-> <<>>,
          nwrites |-> 0, nreads |-> 0]
    ELSE sbl_send_cmd(<<CMD_SEND_DATA>> \o chunk, 0, timeout_ms, io)


---------------------------------------------------------------------------
(* The arithmetic of sbl_program_binary *)

\* erase_len before the cap (sbl.c 334): the size_t sum is masked with the
\* uint32_t ~(page_size - 1) and stored in a uint32_t
RoundedLen(page_size, image_len) ==
    BitAnd(image_len + page_size - 1, BitNot(U32(page_size - 1)))

\* erase_len after the cap (sbl.c 334-337)
EraseLen(flash_size, page_size, image_len, base_addr) ==
    LET rounded == RoundedLen(page_size, image_len)
        last_page_start == U32(flash_size - page_size)
    IN  IF U32(base_addr + rounded) > last_page_start
        THEN U32(last_page_start - base_addr)
        ELSE rounded

\* the erase loop's condition a < base_addr + erase_len
EraseMore(x, base_addr, elen) == x < U32(base_addr + elen)

\* a total_len that is not padded
TotalLenNoPad(image_len) == image_len

\* total_len: image_len padded to a multiple of 4 (sbl.c 357-362)
TotalLen(image_len) ==
    LET remainder == image_len % 4
    IN  IF remainder # 0 THEN image_len + (4 - remainder) ELSE image_len

\* chunk_len of the chunk at offset o (sbl.c 385-387)
ChunkLen(tlen, o) == Min(tlen - o, MaxChunk)

\* byte i (from 0) of the image of kind k
ImageByte(k, i) == IF k = 0 THEN 0 ELSE (7 * i + 3) % 256

\* a chunk padded with 0x00
ChunkBufZeroPad(k, image_len, o, chunk_len) ==
    LET copy_len == IF o + chunk_len > image_len THEN image_len - o ELSE chunk_len
    IN  [i \in 1 .. chunk_len |->
            IF i <= copy_len THEN ImageByte(k, o + i - 1) ELSE 0]

\* buf of the chunk at offset o (sbl.c 389-397)
ChunkBuf(k, image_len, o, chunk_len) ==
    LET copy_len == IF o + chunk_len > image_len THEN image_len - o ELSE chunk_len
    IN  [i \in 1 .. chunk_len |->
            IF i <= copy_len THEN ImageByte(k, o + i - 1) ELSE PadByte]

\* calc_perc after `o` of tlen bytes (sbl.c 419).  The code computes it in
\* double precision and truncates; for the lengths explored here that is the
\* integer quotient.
CalcPerc(o, tlen) == U32((100 * o) \div tlen)

\* one "Progress: %d%%" line: the value printed, and the offset reached then
Report(printed, o) == [printed |-> printed, off |-> o]

---------------------------------------------------------------------------
(* The environment: what the transport does during one command call *)

RECURSIVE SeqsUpTo(_, _)
SeqsUpTo(S, n) ==
    IF n = 0 THEN { <<>> }
    ELSE LET T == SeqsUpTo(S, n - 1)
         IN  T \cup { Append(t, x) : t \in { u \in T : Len(u) = n - 1 }, x \in S }

\* before the ACK byte: line noise and silent poll slices
NoisePrefixes == SeqsUpTo({0, RD_TIMEOUT}, MaxNoise)

\* a well-formed status response frame: size, checksum, status
StatusFrame(s) == <<3, s, s>>

\* what may follow the ACK of a GET_STATUS
ResponseParts ==
    { <<>>,                                   \* no response frame at all
      StatusFrame(COMMAND_RET_SUCCESS),
      StatusFrame(COMMAND_RET_FLASH_FAIL),
      <<RD_TIMEOUT>> \o StatusFrame(COMMAND_RET_SUCCESS),  \* after the window
      <<3, COMMAND_RET_SUCCESS + 1, COMMAND_RET_SUCCESS>>, \* bad checksum
      <<0>>, <<1, 0>>, <<2, 0>>,              \* size bytes 0, 1, 2
      <<4, 2 * COMMAND_RET_SUCCESS, COMMAND_RET_SUCCESS, COMMAND_RET_SUCCESS>>,
      <<3>>, <<3, COMMAND_RET_SUCCESS>>,      \* frame cut short
      <<RD_ERROR>>, <<3, RD_ERROR>> }

IO(w, r, reads) == [wok |-> w, rok |-> r, reads |-> reads]

\* a device that ACKs the frame, and answers a GET_STATUS with SUCCESS at once
GoodIO(status) ==
    { IO(TRUE, TRUE, n \o <<SBL_ACK>> \o
                     (IF status THEN StatusFrame(COMMAND_RET_SUCCESS) ELSE <<>>))
        : n \in NoisePrefixes }

AnyIO(status) ==
    { IO(FALSE, TRUE, <<>>) }
    \cup { IO(TRUE, TRUE, n \o x) : n \in NoisePrefixes,
                                     x \in { <<SBL_NACK>>, <<RD_ERROR>>, <<>> } }
    \cup { IO(TRUE, TRUE, n \o <<SBL_ACK>> \o r)
             : n \in NoisePrefixes, r \in (IF status THEN ResponseParts ELSE { <<>> }) }
    \cup (IF status
          THEN { IO(TRUE, FALSE, <<SBL_ACK>> \o StatusFrame(COMMAND_RET_SUCCESS)) }
          ELSE {})

IOs(status) == IF dev = "good" THEN GoodIO(status) ELSE AnyIO(status)

---------------------------------------------------------------------------
(* The log *)

\* one successful serial_write_all
W(data) == [ev |-> "w", data |-> data, fn |-> "", ret |-> 0, n |-> 0, st |-> 0]

\* the return of a command function called by the workflow: ret is what it
\* returned, n what its sbl_send_cmd returned, st the status byte afterwards
R(fn, r, n, s) == [ev |-> "r", data |-> <<>>, fn |-> fn, ret |-> r, n |-> n, st |-> s]

Ws(writes) == [i \in 1 .. Len(writes) |-> W(writes[i])]

Logged(writes, fn, r, n, s) == log \o Ws(writes) \o <<R(fn, r, n, s)>>

---------------------------------------------------------------------------
(* sbl_program_binary *)

NotReturned == 2

\* The arguments explored: a flash of 3 pages of 256 bytes; base addresses
\* that are misaligned (100), inside the flash, at the last page, at and
\* beyond the end of the flash, and one page below 2^WordBits; images of no,
\* one and three chunks, with and without padding.
FlashSizes == {768}
PageSizes == {256}
BaseAddrs == {0, 100, 256, 512, 768, 1024, Word - 256}
ImageLens == {0, 5, 252, 517}
ImageKinds == {0, 1}

Args == [flash_size : FlashSizes, page_size : PageSizes, image_len : ImageLens,
         base_addr : BaseAddrs, image : ImageKinds]

\* no stand-alone call, no scan, no run of main()
CallIdle == [fn |-> "none"]
ScanIdle == [pc |-> "none", fd |-> FALSE]
ToolIdle == [cmd |-> "none", pc |-> "none", fd |-> FALSE]

AckIdle == [timeout_ms |-> 0, reads |-> <<>>, dts |-> <<>>, done |-> FALSE,
            ret |-> 0, errno |-> "", n |-> 0]

Init ==
    /\ arg \in Args
    /\ dev \in {"any", "good"}
    /\ pc = "start"
    /\ a = 0
    /\ erase_len = 0
    /\ total_len = 0
    /\ off = 0
    /\ st = 0
    /\ ret = NotReturned
    /\ log = <<>>
    /\ ack = AckIdle
    /\ perc = 0
    /\ progress = <<>>
    /\ call = CallIdle
    /\ scan = ScanIdle
    /\ tool = ToolIdle

Fail(l) ==
    /\ ret' = -1
    /\ pc' = "done"
    /\ log' = l

\* sbl.c 327-331: the alignment check fails
Misaligned ==
    /\ pc = "start"
    /\ arg.base_addr % arg.page_size # 0
    /\ Fail(log)
    /\ UNCHANGED <<arg, dev, a, erase_len, total_len, off, st, ack, perc, progress, call, scan, tool>>

\* sbl.c 327-339: the check passes; erase_len is computed and the loop entered
Plan ==
    /\ pc = "start"
    /\ arg.base_addr % arg.page_size = 0
    /\ LET e == EraseLen(arg.flash_size, arg.page_size, arg.image_len, arg.base_addr)
       IN  /\ erase_len' = e
           /\ a' = arg.base_addr
           /\ pc' = IF EraseMore(arg.base_addr, arg.base_addr, e)
                    THEN "sector_erase" ELSE "download"
    /\ UNCHANGED <<arg, dev, total_len, off, st, ret, log, ack, perc, progress, call, scan, tool>>

\* sbl.c 341-347.  (r \in {call}: the call is made once and r is its result.)
SectorErase ==
    /\ pc = "sector_erase"
    /\ \E io \in IOs(FALSE) :
       \E r \in {sbl_sector_erase(a, EraseTimeout, io)} :
         LET l == Logged(r.writes, "sector_erase", r.ret, r.ret, 0)
         IN  IF r.ret # 0
             THEN Fail(l) /\ UNCHANGED st
             ELSE /\ log' = l
                  /\ st' = 0
                  /\ pc' = "erase_status"
                  /\ UNCHANGED ret
    /\ UNCHANGED <<arg, dev, a, erase_len, total_len, off, ack, perc, progress, call, scan, tool>>

\* the get_status after an erase never returns
EraseStatusHangs ==
    /\ pc = "erase_status"
    /\ UNCHANGED vars

\* sbl.c 348-354 and the loop's step and test (339)
EraseStatus ==
    /\ pc = "erase_status"
    /\ \E io \in IOs(TRUE) :
       \E g \in {sbl_get_status(EraseStatusTimeout, st, io)} :
         LET l == Logged(g.writes, "erase_status", g.ret, g.n, g.st)
         IN  IF g.ret # 0
             THEN Fail(l) /\ UNCHANGED <<st, a>>
             ELSE /\ log' = l
                  /\ st' = g.st
                  /\ a' = U32(a + arg.page_size)
                  /\ pc' = IF EraseMore(a', arg.base_addr, erase_len)
                           THEN "sector_erase" ELSE "download"
                  /\ UNCHANGED ret
    /\ UNCHANGED <<arg, dev, erase_len, total_len, off, ack, perc, progress, call, scan, tool>>

\* sbl.c 356-370
Download ==
    /\ pc = "download"
    /\ total_len' = TotalLen(arg.image_len)
    /\ \E io \in IOs(FALSE) :
       \E r \in {sbl_download(arg.base_addr, U32(total_len'), CmdTimeout, io)} :
         LET l == Logged(r.writes, "download", r.ret, r.ret, 0)
         IN  IF r.ret # 0
             THEN Fail(l) /\ UNCHANGED st
             ELSE /\ log' = l
                  /\ st' = 0
                  /\ pc' = "download_status"
                  /\ UNCHANGED ret
    /\ UNCHANGED <<arg, dev, a, erase_len, off, ack, perc, progress, call, scan, tool>>

\* the download's status is read but not compared with SUCCESS
DownloadStatusNoCheck ==
    /\ pc = "download_status"
    /\ \E io \in IOs(TRUE) :
       \E g \in {sbl_get_status(StatusTimeout, st, io)} :
         LET l == Logged(g.writes, "download_status", g.ret, g.n, g.st)
         IN  IF g.ret # 0
             THEN Fail(l) /\ UNCHANGED <<st, off>>
             ELSE /\ log' = l
                  /\ st' = g.st
                  /\ off' = 0
                  /\ pc' = IF 0 < total_len THEN "send_data" ELSE "reset"
                  /\ UNCHANGED ret
    /\ UNCHANGED <<arg, dev, a, erase_len, total_len, ack, perc, progress, call, scan, tool>>

\* sbl.c 371-383
DownloadStatus ==
    /\ pc = "download_status"
    /\ \E io \in IOs(TRUE) :
       \E g \in {sbl_get_status(StatusTimeout, st, io)} :
         LET l == Logged(g.writes, "download_status", g.ret, g.n, g.st)
         IN  IF g.ret # 0 \/ g.st # COMMAND_RET_SUCCESS
             THEN Fail(l) /\ UNCHANGED <<st, off>>
             ELSE /\ log' = l
                  /\ st' = g.st
                  /\ off' = 0
                  /\ pc' = IF 0 < total_len THEN "send_data" ELSE "reset"
                  /\ UNCHANGED ret
    /\ UNCHANGED <<arg, dev, a, erase_len, total_len, ack, perc, progress, call, scan, tool>>

\* a failed send_data is followed by the status request all the same
SendDataNoCheck ==
    /\ pc = "send_data"
    /\ \E buf \in {ChunkBuf(arg.image, arg.image_len, off, ChunkLen(total_len, off))} :
       \E io \in IOs(FALSE) :
       \E r \in {sbl_send_data(buf, CmdTimeout, io)} :
          /\ log' = Logged(r.writes, "send_data", r.ret, r.ret, 0)
          /\ st' = 0
          /\ pc' = "chunk_status"
          /\ UNCHANGED ret
    /\ UNCHANGED <<arg, dev, a, erase_len, total_len, off, ack, perc, progress, call, scan, tool>>

\* sbl.c 385-405
SendData ==
    /\ pc = "send_data"
    /\ \E buf \in {ChunkBuf(arg.image, arg.image_len, off, ChunkLen(total_len, off))} :
       \E io \in IOs(FALSE) :
       \E r \in {sbl_send_data(buf, CmdTimeout, io)} :
         LET l == Logged(r.writes, "send_data", r.ret, r.ret, 0)
         IN  IF r.ret # 0
             THEN Fail(l) /\ UNCHANGED st
             ELSE /\ log' = l
                  /\ st' = 0
                  /\ pc' = "chunk_status"
                  /\ UNCHANGED ret
    /\ UNCHANGED <<arg, dev, a, erase_len, total_len, off, ack, perc, progress, call, scan, tool>>

\* the chunk's status is read but not compared with SUCCESS
ChunkStatusNoCheck ==
    /\ pc = "chunk_status"
    /\ \E io \in IOs(TRUE) :
       \E g \in {sbl_get_status(StatusTimeout, st, io)} :
         LET l == Logged(g.writes, "chunk_status", g.ret, g.n, g.st)
         IN  IF g.ret # 0
             THEN Fail(l) /\ UNCHANGED <<st, off, perc, progress>>
             ELSE /\ log' = l
                  /\ st' = g.st
                  /\ off' = off + ChunkLen(total_len, off)
                  /\ perc' = CalcPerc(off', total_len)
                  /\ progress' = IF perc' # perc
                                  THEN Append(progress, Report(perc, off'))
                                  ELSE progress
                  /\ pc' = IF off' < total_len THEN "send_data" ELSE "reset"
                  /\ UNCHANGED ret
    /\ UNCHANGED <<arg, dev, a, erase_len, total_len, ack, call, scan, tool>>

\* sbl.c 406-424 and the loop's test (383)
ChunkStatus ==
    /\ pc = "chunk_status"
    /\ \E io \in IOs(TRUE) :
       \E g \in {sbl_get_status(StatusTimeout, st, io)} :
         LET l == Logged(g.writes, "chunk_status", g.ret, g.n, g.st)
         IN  IF g.ret # 0 \/ g.st # COMMAND_RET_SUCCESS
             THEN Fail(l) /\ UNCHANGED <<st, off, perc, progress>>
             ELSE /\ log' = l
                  /\ st' = g.st
                  /\ off' = off + ChunkLen(total_len, off)
                  /\ perc' = CalcPerc(off', total_len)
                  /\ progress' = IF perc' # perc
                                  THEN Append(progress, Report(perc, off'))
                                  ELSE progress
                  /\ pc' = IF off' < total_len THEN "send_data" ELSE "reset"
                  /\ UNCHANGED ret
    /\ UNCHANGED <<arg, dev, a, erase_len, total_len, ack, call, scan, tool>>

\* the workflow returns success without sending the reset
ResetSkipped ==
    /\ pc = "reset"
    /\ ret' = 0
    /\ pc' = "done"
    /\ UNCHANGED <<arg, dev, a, erase_len, total_len, off, st, log, ack, perc, progress, call, scan, tool>>

\* sbl.c 427-430: the result of sbl_reset is dropped
Reset ==
    /\ pc = "reset"
    /\ \E io \in IOs(FALSE) :
         LET r == sbl_reset(CmdTimeout, io)
         IN  log' = Logged(r.writes, "reset", r.ret, r.ret, 0)
    /\ ret' = 0
    /\ pc' = "done"
    /\ UNCHANGED <<arg, dev, a, erase_len, total_len, off, st, ack, perc, progress, call, scan, tool>>

Next ==
    \/ Misaligned
    \/ Plan
    \/ SectorErase
    \/ EraseStatus
    \/ Download
    \/ DownloadStatus
    \/ SendData
    \/ ChunkStatus
    \/ Reset

Spec == Init /\ [][Next]_vars

\* the workflow is one sequential call: a step that can run does run
FairSpec == Spec /\ WF_vars(Next)

---------------------------------------------------------------------------
(* sbl_program_binary with arguments that make the erase loop's counter wrap *)

\* a page size that is not a power of two, and a flash smaller than one page:
\* last_page_start underflows to 2^WordBits - 1, the cap never applies, and
\* from base_addr = 2 * page_size the counter a passes 2^WordBits before it
\* reaches base_addr + erase_len
WrapPageSize == 3 * (Word \div 8)

WrapArgs ==
    [flash_size : {WrapPageSize - 1}, page_size : {WrapPageSize},
     image_len : {5}, base_addr : {0, WrapPageSize, 2 * WrapPageSize},
     image : {0}]

InitWrap ==
    /\ arg \in Args \cup WrapArgs
    /\ dev \in {"any", "good"}
    /\ pc = "start"
    /\ a = 0
    /\ erase_len = 0
    /\ total_len = 0
    /\ off = 0
    /\ st = 0
    /\ ret = NotReturned
    /\ log = <<>>
    /\ ack = AckIdle
    /\ perc = 0
    /\ progress = <<>>
    /\ call = CallIdle
    /\ scan = ScanIdle
    /\ tool = ToolIdle

\* as FairSpec: a step that can run does run
SpecWrap == InitWrap /\ [][Next]_vars /\ WF_vars(Next)

---------------------------------------------------------------------------
(* One call of sbl_wait_ack on its own *)

\* how long a read that returns a byte may have waited for it (ms)
ByteDelays == {0, 5}

\* one serial_read_timeout of the call: <<result, time it took>>.  A read that
\* times out takes the whole poll slice.
AckEvents ==
    ({0, COMMAND_RET_SUCCESS, SBL_ACK, SBL_NACK} \X ByteDelays)
    \cup { <<RD_TIMEOUT, step_ms>>, <<RD_ERROR, 0>> }

AckTimeouts == {-20, 0, 20, 40, 50, 100}

\* a transport that stays silent: every read times out after its poll slice
SilentRuns == { [i \in 1 .. n |-> <<RD_TIMEOUT, step_ms>>] : n \in 0 .. MaxSilent }

AckRuns == SeqsUpTo(AckEvents, MaxAckReads) \cup SilentRuns

ArgIdle == [flash_size |-> 0, page_size |-> 0, image_len |-> 0,
            base_addr |-> 0, image |-> 0]

InitAck ==
    /\ \E t \in AckTimeouts, e \in AckRuns :
          ack = [AckIdle EXCEPT !.timeout_ms = t,
                                !.reads = [i \in 1 .. Len(e) |-> e[i][1]],
                                !.dts = [i \in 1 .. Len(e) |-> e[i][2]]]
    /\ arg = ArgIdle
    /\ dev = "any"
    /\ pc = "idle"
    /\ a = 0
    /\ erase_len = 0
    /\ total_len = 0
    /\ off = 0
    /\ st = 0
    /\ ret = NotReturned
    /\ log = <<>>
    /\ perc = 0
    /\ progress = <<>>
    /\ call = CallIdle
    /\ scan = ScanIdle
    /\ tool = ToolIdle

\* sbl.c 31-57: the call runs to its return
WaitAckCall ==
    /\ pc = "idle"
    /\ ~ack.done
    /\ LET r == sbl_wait_ack(ack.reads, ack.timeout_ms)
       IN  ack' = [ack EXCEPT !.done = TRUE, !.ret = r.ret,
                              !.errno = r.errno, !.n = r.n]
    /\ UNCHANGED <<arg, dev, pc, a, erase_len, total_len, off, st, ret, log,
                   perc, progress, call, scan, tool>>

NextAck == WaitAckCall

SpecAck == InitAck /\ [][NextAck]_vars

---------------------------------------------------------------------------
(* Calls of the codec functions on their own, and the argument checks *)

\* the variables of sbl_program_binary
progVars == <<arg, dev, pc, a, erase_len, total_len, off, st, ret, log,
              perc, progress>>

\* sbl_program_binary is not running
ProgramIdle ==
    /\ arg = ArgIdle
    /\ dev = "any"
    /\ pc = "idle"
    /\ a = 0
    /\ erase_len = 0
    /\ total_len = 0
    /\ off = 0
    /\ st = 0
    /\ ret = NotReturned
    /\ log = <<>>
    /\ perc = 0
    /\ progress = <<>>

\* payloads: n bytes 0xFF (their sum passes 256 from n = 2 on), or the byte
\* pattern of the image
Payload(k, n) == [i \in 1 .. n |-> IF k = 0 THEN PadByte ELSE ImageByte(1, i - 1)]

CmdLens == {0, 1, 2, 9, MaxPayload, MaxPayload + 1}
ChunkLens == {0, 1, MaxChunk, MaxChunk + 1}
OutMaxes == {0, 1, 4}
CallTimeouts == {0, StatusTimeout}

\* page sizes (powers of two and others) and image lengths for sbl.c 334
RoundPageSizes == {1, 2, 3, 256, 768, 4096}
RoundImageLens == {0, 1, 5, 255, 256, 257, 768, 5376, Word - 1, Word, Word + 1}

CmdCalls ==
    { [fn |-> "send_cmd", data |-> Payload(k, n), out_max |-> m,
       timeout_ms |-> t, io |-> io, done |-> FALSE]
        : k \in ImageKinds, n \in CmdLens, m \in OutMaxes,
          t \in CallTimeouts, io \in AnyIO(TRUE) }

DataCalls ==
    { [fn |-> "send_data", chunk |-> Payload(k, n),
       timeout_ms |-> t, io |-> io, done |-> FALSE]
        : k \in ImageKinds, n \in ChunkLens,
          t \in CallTimeouts, io \in AnyIO(FALSE) }

RoundCalls ==
    { [fn |-> "erase_len", page_size |-> ps, image_len |-> n, done |-> FALSE]
        : ps \in RoundPageSizes, n \in RoundImageLens }

InitCalls ==
    /\ ack = AckIdle
    /\ scan = ScanIdle
    /\ tool = ToolIdle
    /\ \/ /\ call \in CmdCalls \cup DataCalls \cup RoundCalls
          /\ ProgramIdle
       \/ /\ call = CallIdle
          /\ arg \in Args
          /\ dev = "any"
          /\ pc = "start"
          /\ a = 0
          /\ erase_len = 0
          /\ total_len = 0
          /\ off = 0
          /\ st = 0
          /\ ret = NotReturned
          /\ log = <<>>
          /\ perc = 0
          /\ progress = <<>>

\* sbl.c 132-194
SendCmdCall ==
    /\ call.fn = "send_cmd" /\ ~call.done
    /\ \E r \in {sbl_send_cmd(call.data, call.out_max, call.timeout_ms, call.io)} :
          call' = [fn |-> call.fn, data |-> call.data, out_max |-> call.out_max,
                   timeout_ms |-> call.timeout_ms, io |-> call.io,
                   done |-> TRUE, res |-> r]
    /\ UNCHANGED <<progVars, ack, scan, tool>>

\* sbl.c 266-280
SendDataCall ==
    /\ call.fn = "send_data" /\ ~call.done
    /\ \E r \in {sbl_send_data(call.chunk, call.timeout_ms, call.io)} :
          call' = [fn |-> call.fn, chunk |-> call.chunk,
                   timeout_ms |-> call.timeout_ms, io |-> call.io,
                   done |-> TRUE, res |-> r]
    /\ UNCHANGED <<progVars, ack, scan, tool>>

\* sbl.c 334
RoundCall ==
    /\ call.fn = "erase_len" /\ ~call.done
    /\ call' = [fn |-> call.fn, page_size |-> call.page_size,
                image_len |-> call.image_len, done |-> TRUE,
                res |-> RoundedLen(call.page_size, call.image_len)]
    /\ UNCHANGED <<progVars, ack, scan, tool>>

NextCalls ==
    \/ SendCmdCall
    \/ SendDataCall
    \/ RoundCall
    \/ Misaligned

SpecCalls == InitCalls /\ [][NextCalls]_vars

---------------------------------------------------------------------------
(* sbl_autobaud and sbl_autobaud_scan *)

AutobaudTimeout == 500
AutobaudBytes == 2

\* the loop of sbl_autobaud before its i-th read (sbl.c 71-86): only 0xCC
\* ends it, every other byte is skipped
\* a loop that a NACK byte ends as well
RECURSIVE AutobaudLoopNack(_, _, _, _)
AutobaudLoopNack(reads, i, elapsed, timeout_ms) ==
    IF elapsed >= timeout_ms
    THEN [ret |-> -1, errno |-> "ETIMEDOUT", nreads |-> i - 1]
    ELSE IF i > Len(reads)
    THEN [ret |-> -1, errno |-> "ETIMEDOUT",
          nreads |-> i - 1 + SlicesLeft(elapsed, timeout_ms)]
    ELSE LET b == Rd(reads, i) IN
         IF b = RD_ERROR THEN [ret |-> -1, errno |-> "EIO", nreads |-> i]
         ELSE IF b = SBL_ACK THEN [ret |-> 0, errno |-> "", nreads |-> i]
         ELSE IF b = SBL_NACK THEN [ret |-> -1, errno |-> "EPROTO", nreads |-> i]
         ELSE AutobaudLoopNack(reads, i + 1, elapsed + step_ms, timeout_ms)

\* nreads is the number of reads made; past the end of `reads` every read
\* times out, so the loop runs its remaining slices and gives up
RECURSIVE AutobaudLoop(_, _, _, _)
AutobaudLoop(reads, i, elapsed, timeout_ms) ==
    IF elapsed >= timeout_ms
    THEN [ret |-> -1, errno |-> "ETIMEDOUT", nreads |-> i - 1]
    ELSE IF i > Len(reads)
    THEN [ret |-> -1, errno |-> "ETIMEDOUT",
          nreads |-> i - 1 + SlicesLeft(elapsed, timeout_ms)]
    ELSE LET b == Rd(reads, i) IN
         IF b = RD_ERROR THEN [ret |-> -1, errno |-> "EIO", nreads |-> i]
         ELSE IF b = SBL_ACK THEN [ret |-> 0, errno |-> "", nreads |-> i]
         ELSE AutobaudLoop(reads, i + 1, elapsed + step_ms, timeout_ms)

\* the byte sbl_autobaud sends (sbl.c 61)
AutobaudByte == 85

\* sbl_autobaud (sbl.c 59-87): nw of the 0x55 bytes can be written.  writes:
\* the bytes written, in order; nwrites: the serial_write_byte calls made
sbl_autobaud(nw, reads, timeout_ms) ==
    IF nw < AutobaudBytes
    THEN [ret |-> -1, errno |-> "EIO", nreads |-> 0, nwrites |-> nw + 1,
          writes |-> [i \in 1 .. nw |-> AutobaudByte]]
    ELSE AutobaudLoop(reads, 1, 0, timeout_ms)
         @@ [nwrites |-> AutobaudBytes,
             writes |-> [i \in 1 .. AutobaudBytes |-> AutobaudByte]]

\* what the transport does during one sbl_autobaud
ProbeIOs ==
    { [nw |-> n, reads |-> <<>>] : n \in 0 .. AutobaudBytes - 1 }
    \cup { [nw |-> AutobaudBytes, reads |-> n \o x]
            : n \in NoisePrefixes,
              x \in { <<SBL_ACK>>, <<SBL_NACK, SBL_ACK>>, <<SBL_NACK>>,
                       <<RD_ERROR>>, <<>> } }

\* the candidate lists given to sbl_autobaud_scan directly, and main's list
\* (main.c 198)
ScanLists == { <<>>, <<9600, 115200>>, <<9600, 115200, 9600>> }
try_bauds == <<115200, 921600, 460800, 230400, 57600, 38400, 19200, 9600>>

\* sbl_autobaud_scan is entered with the candidates bauds and *baud_ok = found
ScanStart(bauds, found) ==
    [pc |-> "enter", bauds |-> bauds, i |-> 1, fd |-> FALSE,
     events |-> <<>>, ret |-> NotReturned, errno |-> "",
     baud_ok |-> found, found0 |-> found]

\* one serial_open_configure / serial_close made by the scan
Opened(b, ok) == [ev |-> "open", baud |-> b, ok |-> ok]
Closed(b, acked) == [ev |-> "close", baud |-> b, ok |-> acked]

\* sbl.c 93-97
ScanInvalid ==
    /\ scan.pc = "enter"
    /\ Len(scan.bauds) = 0
    /\ scan' = [scan EXCEPT !.pc = "done", !.ret = -1, !.errno = "EINVAL"]
    /\ UNCHANGED <<progVars, ack, call, tool>>

\* sbl.c 99-104: the next candidate is opened; a failed open skips it
ScanOpen ==
    /\ scan.pc \in {"enter", "loop"}
    /\ scan.i <= Len(scan.bauds)
    /\ \E ok \in BOOLEAN :
          scan' = [scan EXCEPT !.events = Append(@, Opened(scan.bauds[scan.i], ok)),
                               !.fd = ok,
                               !.i = IF ok THEN @ ELSE @ + 1,
                               !.pc = IF ok THEN "probe" ELSE "loop"]
    /\ UNCHANGED <<progVars, ack, call, tool>>

\* the probe leaves the handle open
ScanProbeNoClose ==
    /\ scan.pc = "probe"
    /\ \E io \in ProbeIOs :
       \E r \in {sbl_autobaud(io.nw, io.reads, AutobaudTimeout)} :
          scan' = IF r.ret = 0
                  THEN [scan EXCEPT !.pc = "done", !.ret = 0,
                                    !.baud_ok = scan.bauds[scan.i]]
                  ELSE [scan EXCEPT !.pc = "loop", !.i = @ + 1,
                                    !.errno = r.errno]
    /\ UNCHANGED <<progVars, ack, call, tool>>

\* sbl.c 106-117: probe, close, and return at the first ACK
ScanProbe ==
    /\ scan.pc = "probe"
    /\ \E io \in ProbeIOs :
       \E r \in {sbl_autobaud(io.nw, io.reads, AutobaudTimeout)} :
          scan' = IF r.ret = 0
                  THEN [scan EXCEPT !.events = Append(@, Closed(scan.bauds[scan.i], TRUE)),
                                    !.fd = FALSE,
                                    !.pc = "done", !.ret = 0,
                                    !.baud_ok = scan.bauds[scan.i]]
                  ELSE [scan EXCEPT !.events = Append(@, Closed(scan.bauds[scan.i], FALSE)),
                                    !.fd = FALSE,
                                    !.pc = "loop", !.i = @ + 1,
                                    !.errno = r.errno]
    /\ UNCHANGED <<progVars, ack, call, tool>>

\* sbl.c 99, 119: no candidate is left
ScanExhausted ==
    /\ scan.pc = "loop"
    /\ scan.i > Len(scan.bauds)
    /\ scan' = [scan EXCEPT !.pc = "done", !.ret = -1]
    /\ UNCHANGED <<progVars, ack, call, tool>>

---------------------------------------------------------------------------
(* main(): the sbl_autobaud_scan and sbl_program subcommands *)

NotExited == -1

\* the tool is started with subcommand cmd; argc_ok: the argument count is
\* the one the subcommand wants; loaded: load_bin can read the image file
ToolStart(cmd, argc_ok, loaded) ==
    [cmd |-> cmd, pc |-> "open", fd |-> FALSE, rc |-> NotExited,
     argc_ok |-> argc_ok, loaded |-> loaded]

\* main.c 76-83: the device is opened at the rate of the command line
MainOpen ==
    /\ tool.cmd # "none" /\ tool.pc = "open"
    /\ \E ok \in BOOLEAN :
          tool' = IF ok THEN [tool EXCEPT !.fd = TRUE, !.pc = "cmd"]
                  ELSE [tool EXCEPT !.rc = 2, !.pc = "exit"]
    /\ UNCHANGED <<progVars, ack, call, scan>>

\* main.c 195-200: the scan is called with main's list and found = 0
MainScan ==
    /\ tool.cmd = "sbl_autobaud_scan" /\ tool.pc = "cmd"
    /\ scan' = ScanStart(try_bauds, 0)
    /\ tool' = [tool EXCEPT !.pc = "scan"]
    /\ UNCHANGED <<progVars, ack, call>>

\* main.c 200-207 and 435-437
MainScanDone ==
    /\ tool.pc = "scan" /\ scan.pc = "done"
    /\ tool' = [tool EXCEPT !.rc = IF scan.ret # 0 THEN 1 ELSE 0,
                             !.fd = FALSE, !.pc = "exit"]
    /\ UNCHANGED <<progVars, ack, call, scan>>

InitScan ==
    /\ ProgramIdle
    /\ ack = AckIdle
    /\ call = CallIdle
    /\ \/ /\ tool = ToolIdle
          /\ \E l \in ScanLists, f \in {0, 9600} : scan = ScanStart(l, f)
       \/ /\ tool = ToolStart("sbl_autobaud_scan", TRUE, TRUE)
          /\ scan = ScanIdle

NextScan ==
    \/ MainOpen
    \/ MainScan
    \/ MainScanDone
    \/ ScanInvalid
    \/ ScanOpen
    \/ ScanProbe
    \/ ScanExhausted

SpecScan == InitScan /\ [][NextScan]_vars

---------------------------------------------------------------------------
(* One call of sbl_autobaud on its own *)

ProbeTimeouts == {-20, 0, 20, 40, 50, AutobaudTimeout}

\* what one serial_read_timeout of the call may return
ProbeEvents == {0, SBL_NACK, SBL_ACK, RD_TIMEOUT, RD_ERROR}

ProbeRuns ==
    SeqsUpTo(ProbeEvents, MaxAckReads)
    \cup { [i \in 1 .. Len(e) |-> e[i][1]] : e \in SilentRuns }

ProbeCalls ==
    { [fn |-> "autobaud", nw |-> n, reads |-> r, timeout_ms |-> t,
       done |-> FALSE]
        : n \in 0 .. AutobaudBytes, r \in ProbeRuns, t \in ProbeTimeouts }

InitProbe ==
    /\ ProgramIdle
    /\ ack = AckIdle
    /\ scan = ScanIdle
    /\ tool = ToolIdle
    /\ call \in ProbeCalls

\* sbl.c 59-87: the call runs to its return
AutobaudCall ==
    /\ call.fn = "autobaud" /\ ~call.done
    /\ \E r \in {sbl_autobaud(call.nw, call.reads, call.timeout_ms)} :
          call' = [fn |-> call.fn, nw |-> call.nw, reads |-> call.reads,
                   timeout_ms |-> call.timeout_ms, done |-> TRUE, res |-> r]
    /\ UNCHANGED <<progVars, ack, scan, tool>>

NextProbe == AutobaudCall

SpecProbe == InitProbe /\ [][NextProbe]_vars

---------------------------------------------------------------------------
(* Commands sent one after another on one open port *)

\* the commands of a session: ping, get_status, get_chip_id (sbl.c 197-231),
\* and a GET_CHIP_ID sent through sbl_send_cmd with a one-byte buffer
SessionCmds ==
    { [data |-> <<CMD_PING>>, out_max |-> 0],
      [data |-> <<CMD_GET_STATUS>>, out_max |-> 1],
      [data |-> <<CMD_GET_CHIP_ID>>, out_max |-> 4],
      [data |-> <<CMD_GET_CHIP_ID>>, out_max |-> 1] }

\* a response frame as the device builds it: size, checksum, payload
DeviceFrame(payload) == << Len(payload) + 2, checksum_sum(payload) >> \o payload

\* chip ids (four bytes, little-endian), one with a 0x33 and one with a 0xCC
\* among its bytes
ChipIds == { <<0, 128, 130, 32>>, <<SBL_NACK, 128, 130, 32>>,
             <<SBL_ACK, 128, 130, 32>> }

\* the response frames a device sends after the ACK of command c
Responses(c) ==
    IF c.data = <<CMD_GET_STATUS>>
    THEN { DeviceFrame(<<x>>) : x \in {COMMAND_RET_SUCCESS, COMMAND_RET_FLASH_FAIL} }
    ELSE IF c.data = <<CMD_GET_CHIP_ID>>
    THEN { DeviceFrame(id) : id \in ChipIds }
    ELSE { <<>> }

\* what the device sends in answer to command c, as the results of the reads
\* that follow the command frame: nothing, a NACK, or an ACK and the response
\* frame, at once or after a slice in which no byte arrives
Answers(c) ==
    { <<>>, <<SBL_NACK>> }
    \cup { <<SBL_ACK>> \o gap \o f
             : gap \in { <<>>, <<RD_TIMEOUT>> }, f \in Responses(c) }

\* the bytes of `stream` that the call, having made n reads, left unread:
\* they stay in the port's input queue (nothing flushes it after
\* serial_open_configure, serial.c 100)
Unread(stream, n) ==
    SelectSeq(SubSeq(stream, n + 1, Len(stream)), LAMBDA b : b >= 0)

SessionStart(cmds) ==
    [fn |-> "session", cmds |-> cmds, k |-> 1, pending |-> <<>>, done |-> <<>>]

InitSession ==
    /\ ProgramIdle
    /\ ack = AckIdle
    /\ scan = ScanIdle
    /\ tool = ToolIdle
    /\ \E c1, c2 \in SessionCmds : call = SessionStart(<<c1, c2>>)

\* sbl.c 132-194: the k-th command of the session.  Its reads return first
\* the bytes left in the input queue, then the device's answer to it.
\* stale: how many reads of the call return queued bytes; ack: what the
\* call's sbl_wait_ack did.
SessionCmd ==
    /\ call.fn = "session" /\ call.k <= Len(call.cmds)
    /\ \E ans \in Answers(call.cmds[call.k]) :
       \E stream \in {call.pending \o ans} :
       \E r \in {sbl_send_cmd(call.cmds[call.k].data, call.cmds[call.k].out_max,
                               StatusTimeout, IO(TRUE, TRUE, stream))} :
          call' = [call EXCEPT
                     !.k = @ + 1,
                     !.pending = Unread(stream, r.nreads),
                     !.done = Append(@, [stale |-> Len(call.pending),
                                         stream |-> stream,
                                         res |-> r,
                                         ack |-> sbl_wait_ack(stream, StatusTimeout)])]
    /\ UNCHANGED <<progVars, ack, scan, tool>>

NextSession == SessionCmd

SpecSession == InitSession /\ [][NextSession]_vars

---------------------------------------------------------------------------
(* main(): the sbl_program subcommand *)

\* main.c 413-427: the argument count is checked, the image is loaded (a
\* failed load_bin gives image = NULL and len = 0, and is not looked at) and
\* sbl_program_binary is called
MainProgram ==
    /\ tool.cmd = "sbl_program" /\ tool.pc = "cmd"
    /\ IF ~tool.argc_ok
       THEN /\ tool' = [tool EXCEPT !.rc = 1, !.fd = FALSE, !.pc = "exit"]
            /\ UNCHANGED <<arg, pc>>
       ELSE /\ tool' = [tool EXCEPT !.pc = "program"]
            /\ arg' = [arg EXCEPT !.image_len = IF tool.loaded THEN @ ELSE 0]
            /\ pc' = "start"
    /\ UNCHANGED <<dev, a, erase_len, total_len, off, st, ret, log, perc,
                   progress, ack, call, scan>>

\* main.c 427, 435-437: the value sbl_program_binary returned is dropped and
\* rc is still 0
MainProgramDone ==
    /\ tool.pc = "program" /\ pc = "done"
    /\ tool' = [tool EXCEPT !.rc = 0, !.fd = FALSE, !.pc = "exit"]
    /\ UNCHANGED <<progVars, ack, call, scan>>

\* arg: the addresses and sizes of the command line and the length of the
\* image file
InitMain ==
    /\ arg \in Args
    /\ dev = "any"
    /\ pc = "idle"
    /\ a = 0
    /\ erase_len = 0
    /\ total_len = 0
    /\ off = 0
    /\ st = 0
    /\ ret = NotReturned
    /\ log = <<>>
    /\ perc = 0
    /\ progress = <<>>
    /\ ack = AckIdle
    /\ call = CallIdle
    /\ scan = ScanIdle
    /\ \E ac \in BOOLEAN, ld \in BOOLEAN : tool = ToolStart("sbl_program", ac, ld)

NextMain ==
    \/ MainOpen
    \/ MainProgram
    \/ MainProgramDone
    \/ Next

SpecMain == InitMain /\ [][NextMain]_vars

---------------------------------------------------------------------------
(* Reading the log *)

\* a command frame: a write whose size byte is not 0 (the reply-ACK is <<0, 0xCC>>)
IsCmd(e) == e.ev = "w" /\ e.data[1] # 0

\* a command frame with opcode op (the opcode is the third byte of the frame)
IsOp(e, op) == IsCmd(e) /\ e.data[3] = op

\* the return of the command function at call site fn
IsRet(e, fn) == e.ev = "r" /\ e.fn = fn

\* positions of the log
Pos == 1 .. Len(log)

\* the positions of the command frames with opcode op, in order
OpPos(op) == { i \in Pos : IsOp(log[i], op) }

\* the bytes of a frame after size, checksum and opcode
Operand(e) == SubSeq(e.data, 4, Len(e.data))

\* the frames with opcode op, in the order sent
OpFrames(op) == SelectSeq(log, LAMBDA e : IsOp(e, op))

\* the address of each sector_erase sent, in order
ErasedAddrs ==
    LET f == OpFrames(CMD_SECTOR_ERASE)
    IN  [i \in 1 .. Len(f) |-> FromBE32(Operand(f[i]))]

\* the chunk of each send_data sent, in order
SentChunks ==
    LET f == OpFrames(CMD_SEND_DATA)
    IN  [i \in 1 .. Len(f) |-> Operand(f[i])]

RECURSIVE Concat(_)
Concat(ss) == IF ss = <<>> THEN <<>> ELSE Head(ss) \o Concat(Tail(ss))

\* a status that was decoded from a response frame and is SUCCESS
StatusOk(e) == e.ret = 0 /\ e.n = 1 /\ e.st = COMMAND_RET_SUCCESS

\* sbl_program_binary has returned failure and did nothing after log[i]
AbortedAt(i) == pc = "done" /\ ret = -1 /\ i = Len(log)

Returned == pc = "done"

Aligned == arg.base_addr % arg.page_size = 0

---------------------------------------------------------------------------
(* C1 *)

\* C1: when the get_status after a sector_erase reports a status other than
\* SUCCESS, the operation aborts at that page: it returns failure and sends
\* no further sector_erase, no download and no send_data.
C1_EraseStatusFailureAborts ==
    \A i \in Pos :
        (IsRet(log[i], "erase_status") /\ log[i].ret = 0 /\ log[i].n = 1
            /\ log[i].st # COMMAND_RET_SUCCESS)
        => AbortedAt(i)

---------------------------------------------------------------------------
(* C2 *)

\* the erase loop is over and none of its commands failed
EraseLoopDone ==
    /\ pc \notin {"start", "sector_erase", "erase_status"}
    /\ \A i \in Pos : (IsRet(log[i], "sector_erase") \/ IsRet(log[i], "erase_status"))
                        => log[i].ret = 0

\* C2: with base_addr a multiple of page_size and flash_size >= page_size, the
\* sector_erase commands sent are exactly base_addr + k*page_size for
\* k = 0 .. erase_len/page_size - 1, in increasing order, none of them at or
\* above flash_size - page_size, and base_addr + erase_len <= flash_size - page_size.
C2_EraseAddressesExact ==
    (Aligned /\ arg.flash_size >= arg.page_size /\ EraseLoopDone)
    => /\ ErasedAddrs = [k \in 1 .. (erase_len \div arg.page_size)
                            |-> arg.base_addr + (k - 1) * arg.page_size]
       /\ \A k \in DOMAIN ErasedAddrs :
              ErasedAddrs[k] < arg.flash_size - arg.page_size
       /\ arg.base_addr + erase_len <= arg.flash_size - arg.page_size

---------------------------------------------------------------------------
(* C3 *)

\* C3: all sector_erase commands precede the single download; a send_data is
\* sent only after the download and after the get_status that follows the
\* download returned SUCCESS; no sector_erase follows a download or send_data.
C3_CommandOrder ==
    /\ Cardinality(OpPos(CMD_DOWNLOAD)) <= 1
    /\ \A i \in OpPos(CMD_SECTOR_ERASE) :
           \A j \in OpPos(CMD_DOWNLOAD) \cup OpPos(CMD_SEND_DATA) : i < j
    /\ \A j \in OpPos(CMD_SEND_DATA) :
           \E d \in OpPos(CMD_DOWNLOAD) :
               \E g \in d + 1 .. j - 1 :
                   /\ IsRet(log[g], "download_status")
                   /\ StatusOk(log[g])
                   /\ \E q \in d + 1 .. g - 1 : IsOp(log[q], CMD_GET_STATUS)

\* a run that erased, downloaded and sent two chunks
C3_Witness ==
    /\ Cardinality(OpPos(CMD_SECTOR_ERASE)) >= 2
    /\ Cardinality(OpPos(CMD_DOWNLOAD)) = 1
    /\ Cardinality(OpPos(CMD_SEND_DATA)) >= 2

---------------------------------------------------------------------------
(* C4 *)

\* the smallest multiple of m that is >= n
RoundUp(n, m) == CHOOSE r \in n .. n + m - 1 : r % m = 0

CeilDiv(n, m) == (n + m - 1) \div m

\* C4: download announces base_addr and total_len = the smallest multiple of
\* 4 >= image_len; a run where every step succeeds sends ceil(total_len/252)
\* send_data commands of 1..252 bytes, all but the last of 252, whose lengths
\* sum to the announced total_len.
C4_DownloadAndChunkCount ==
    LET tl  == RoundUp(arg.image_len, 4)
        dl  == OpFrames(CMD_DOWNLOAD)
        ch  == SentChunks
    IN  /\ \A i \in 1 .. Len(dl) :
               /\ Len(Operand(dl[i])) = 8
               /\ FromBE32(SubSeq(Operand(dl[i]), 1, 4)) = arg.base_addr
               /\ FromBE32(SubSeq(Operand(dl[i]), 5, 8)) = tl
        /\ (Returned /\ ret = 0) =>
               /\ Len(dl) = 1
               /\ Len(ch) = CeilDiv(tl, MaxChunk)
               /\ \A i \in 1 .. Len(ch) :
                      /\ Len(ch[i]) \in 1 .. MaxChunk
                      /\ i < Len(ch) => Len(ch[i]) = MaxChunk
               /\ Len(Concat(ch)) = tl

\* the run of the 517-byte image succeeded: total_len 520, three chunks
C4_Witness ==
    /\ Returned /\ ret = 0
    /\ arg.image_len = 517
    /\ Len(SentChunks) = 3
    /\ Len(Concat(SentChunks)) = 520

---------------------------------------------------------------------------
(* C5 *)

\* what the device must receive: the image, then 0xFF up to a multiple of 4
Padded ==
    [i \in 1 .. RoundUp(arg.image_len, 4) |->
        IF i <= arg.image_len THEN ImageByte(arg.image, i - 1) ELSE 255]

\* C5: the chunks sent, concatenated in order, are the image followed by 0xFF
\* bytes up to total_len: at any moment a prefix of it, and all of it when
\* the run succeeds.
C5_ChunksCarryPaddedImage ==
    LET sent == Concat(SentChunks)
    IN  /\ Len(sent) <= Len(Padded)
        /\ sent = SubSeq(Padded, 1, Len(sent))
        /\ (Returned /\ ret = 0) => sent = Padded

\* a successful run whose last chunk holds image bytes and padding
C5_Witness ==
    /\ Returned /\ ret = 0
    /\ arg.image_len = 517 /\ arg.image = 1
    /\ Len(SentChunks) = 3
    /\ SentChunks[3][13] = ImageByte(1, 516)
    /\ SentChunks[3][14] = 255

---------------------------------------------------------------------------
(* C6 *)

\* the positions after i up to the next send_data or reset frame (or the end)
Until(i) ==
    LET nxt == { j \in i + 1 .. Len(log) :
                    IsOp(log[j], CMD_SEND_DATA) \/ IsOp(log[j], CMD_RESET) }
    IN  i + 1 .. (IF nxt = {} THEN Len(log) ELSE (CHOOSE j \in nxt : \A k \in nxt : j <= k))

\* C6: each send_data is followed by exactly one get_status before the next
\* send_data (or the reset), whose status is SUCCESS; when that status is not
\* SUCCESS, or the send_data or get_status fails, the operation returns
\* failure with no further send_data and no reset.
C6_ChunkStatusChecked ==
    /\ \A i \in OpPos(CMD_SEND_DATA) :
          (\E j \in i + 1 .. Len(log) :
                IsOp(log[j], CMD_SEND_DATA) \/ IsOp(log[j], CMD_RESET))
          => /\ Cardinality({ g \in Until(i) : IsOp(log[g], CMD_GET_STATUS) }) = 1
             /\ \E g \in Until(i) : IsRet(log[g], "chunk_status") /\ StatusOk(log[g])
    /\ \A i \in Pos :
          \/ (IsRet(log[i], "send_data") /\ log[i].ret # 0)
          \/ (IsRet(log[i], "chunk_status") /\ ~StatusOk(log[i]))
          => AbortedAt(i)

\* the second chunk's status was FLASH_FAIL and the run stopped there
C6_Witness ==
    /\ Cardinality(OpPos(CMD_SEND_DATA)) = 2
    /\ Len(log) > 0
    /\ IsRet(log[Len(log)], "chunk_status")
    /\ log[Len(log)].n = 1 /\ log[Len(log)].st = COMMAND_RET_FLASH_FAIL
    /\ AbortedAt(Len(log))

---------------------------------------------------------------------------
(* C7 *)

StatusSites == {"erase_status", "download_status", "chunk_status"}

\* log[i] is the return of a get_status that was ACKed and read no response
\* frame: it returned 0 and left the status unset
Inconclusive(i) ==
    /\ log[i].ev = "r" /\ log[i].fn \in StatusSites
    /\ log[i].ret = 0 /\ log[i].n = 0
    /\ i > 1 /\ IsOp(log[i - 1], CMD_GET_STATUS)

\* C7: a get_status that was ACKed but got no response frame is never taken
\* for SUCCESS: at each of the three call sites it stops the workflow.
C7_InconclusiveStatusStops ==
    \A i \in Pos : Inconclusive(i) => AbortedAt(i)

---------------------------------------------------------------------------
(* C8 *)

\* the reset was sent once, it is the last command sent, and what precedes it
\* is the confirmation of the last status asked for
ResetOnceLast ==
    /\ Cardinality(OpPos(CMD_RESET)) = 1
    /\ \A r \in OpPos(CMD_RESET) :
          /\ \A j \in r + 1 .. Len(log) : ~IsCmd(log[j])
          /\ r > 1 /\ log[r - 1].ev = "r" /\ StatusOk(log[r - 1])
          /\ log[r - 1].fn = IF total_len > 0 THEN "chunk_status" ELSE "download_status"

\* C8: against a device that ACKs every frame and answers every get_status
\* with SUCCESS, a call with an aligned base_addr eventually returns success,
\* and the last command it sent is the reset, sent once.
C8_GoodDeviceSucceeds ==
    (dev = "good" /\ Aligned /\ pc = "start")
        ~> (Returned /\ ret = 0 /\ ResetOnceLast)

\* the three-chunk image written to a good device
C8_Witness ==
    /\ dev = "good" /\ Returned /\ ret = 0
    /\ Cardinality(OpPos(CMD_SECTOR_ERASE)) = 2
    /\ Cardinality(OpPos(CMD_SEND_DATA)) = 3
    /\ ResetOnceLast

---------------------------------------------------------------------------
(* C9 *)

\* every command the workflow made so far succeeded, statuses included
AllStepsOk ==
    \A i \in Pos :
        log[i].ev = "r" /\ log[i].fn # "reset" =>
            IF log[i].fn \in StatusSites THEN StatusOk(log[i]) ELSE log[i].ret = 0

\* C9: the reset is sent only when every erase, the download and every chunk
\* completed successfully; the call then returns success whatever the answer
\* to the reset; a call that returns failure sent no reset.
C9_ResetOnlyAfterFullSuccess ==
    /\ OpPos(CMD_RESET) # {} => AllStepsOk
    /\ (Returned /\ \E i \in Pos : IsRet(log[i], "reset")) => ret = 0
    /\ (Returned /\ ret = -1) => OpPos(CMD_RESET) = {}

---------------------------------------------------------------------------
(* C10 *)

\* when the result of the i-th read of the call is there, in ms from its start
RECURSIVE Arrival(_)
Arrival(i) == IF i = 0 THEN 0 ELSE Arrival(i - 1) + ack.dts[i]

\* the reads that deliver 0xCC or 0x33 within timeout_ms of the call's start
Decisive ==
    { i \in 1 .. Len(ack.reads) :
        ack.reads[i] \in {SBL_ACK, SBL_NACK} /\ Arrival(i) < ack.timeout_ms }

\* C10: sbl_wait_ack returns success iff a 0xCC arrives within timeout_ms with
\* no 0x33 before it, however many noise bytes precede it; it returns
\* Rejected (EPROTO) when a 0x33 comes first and Timeout (ETIMEDOUT) when
\* neither arrives within the budget.  (Calls without a read error.)
C10_AckIffArrivesInTime ==
    (ack.done /\ \A i \in 1 .. Len(ack.reads) : ack.reads[i] # RD_ERROR) =>
        IF Decisive = {}
        THEN ack.ret = -1 /\ ack.errno = "ETIMEDOUT"
        ELSE LET first == CHOOSE i \in Decisive : \A j \in Decisive : i <= j
             IN  IF ack.reads[first] = SBL_ACK
                 THEN ack.ret = 0
                 ELSE ack.ret = -1 /\ ack.errno = "EPROTO"

---------------------------------------------------------------------------
(* Reading a stand-alone call *)

\* the sum of the bytes of s
RECURSIVE SumOf(_)
SumOf(s) ==
    IF Len(s) = 0 THEN 0
    ELSE IF Len(s) = 1 THEN s[1]
    ELSE LET h == Len(s) \div 2
         IN  SumOf(SubSeq(s, 1, h)) + SumOf(SubSeq(s, h + 1, Len(s)))

CmdDone == call.fn = "send_cmd" /\ call.done
DataDone == call.fn = "send_data" /\ call.done

\* the reads of the call that end the wait for the ACK
CallDecisive ==
    { i \in 1 .. Len(call.io.reads) : call.io.reads[i] \in {SBL_ACK, SBL_NACK, RD_ERROR} }

\* the read that delivers the ACK of the command frame (0: the frame is not
\* ACKed), each read before it having used one poll slice of the timeout
AckPos ==
    IF ~call.io.wok \/ CallDecisive = {} THEN 0
    ELSE LET i == CHOOSE x \in CallDecisive : \A y \in CallDecisive : x <= y
         IN  IF call.io.reads[i] = SBL_ACK /\ (i - 1) * step_ms < call.timeout_ms
             THEN i ELSE 0

\* the call asked for a response and a byte followed the ACK within the
\* response window: that byte is the response-size byte
HasSizeByte ==
    /\ CmdDone /\ Len(call.data) \in 1 .. MaxPayload /\ call.out_max > 0
    /\ AckPos > 0 /\ AckPos + 1 <= Len(call.io.reads)
    /\ call.io.reads[AckPos + 1] >= 0

SizeByte == call.io.reads[AckPos + 1]

\* the reply-ACK writes of the call
ReplyAcks == { i \in 1 .. Len(call.res.writes) : call.res.writes[i] = <<0, SBL_ACK>> }

---------------------------------------------------------------------------
(* C11 *)

\* C11: for every payload of 1..253 bytes sbl_send_cmd hands the transport the
\* frame [len+2, sum of the payload mod 256, payload...] of len+2 bytes in one
\* serial_write_all call, before any read; the size byte does not wrap and
\* the opcode is the third byte of the frame.
C11_FrameInOneWrite ==
    (CmdDone /\ Len(call.data) \in 1 .. MaxPayload) =>
        LET len   == Len(call.data)
            frame == <<len + 2, SumOf(call.data) % 256>> \o call.data
            r     == call.res
        IN  /\ len + 2 <= 255
            /\ Len(frame) = len + 2 /\ frame[3] = call.data[1]
            /\ r.nwrites >= 1
            /\ IF call.io.wok
               THEN /\ r.writes # <<>> /\ r.writes[1] = frame
                    /\ \A i \in 2 .. Len(r.writes) : r.writes[i] = <<0, SBL_ACK>>
               ELSE r.writes = <<>> /\ r.nwrites = 1
            /\ r.nreads > 0 => (r.writes # <<>> /\ r.writes[1] = frame)

\* the longest payload, of bytes 0xFF, sent and ACKed
C11_Witness ==
    /\ CmdDone /\ Len(call.data) = MaxPayload /\ call.data[1] = PadByte
    /\ call.res.ret = 0 /\ Len(call.res.writes[1]) = 255

---------------------------------------------------------------------------
(* C12 *)

\* C12: invalid arguments are rejected before any transport write or read:
\* sbl_send_cmd with a payload of 0 or more than 253 bytes, sbl_send_data with
\* a chunk of 0 or more than 252 bytes, sbl_program_binary with a base_addr
\* that is not a multiple of page_size.
C12_InvalidArgsWriteNothing ==
    /\ (CmdDone /\ Len(call.data) \notin 1 .. MaxPayload) =>
          /\ call.res.ret = -1 /\ call.res.errno = "EINVAL"
          /\ call.res.nwrites = 0 /\ call.res.nreads = 0
    /\ (DataDone /\ Len(call.chunk) \notin 1 .. MaxChunk) =>
          /\ call.res.ret = -1 /\ call.res.errno = "EINVAL"
          /\ call.res.nwrites = 0 /\ call.res.nreads = 0
    /\ (pc = "done" /\ ~Aligned) => (ret = -1 /\ log = <<>>)

\* an empty chunk was refused
C12_Witness ==
    DataDone /\ Len(call.chunk) = 0 /\ call.res.ret = -1

---------------------------------------------------------------------------
(* C13 *)

\* the call failed on the checksum of the response it read
ChecksumMismatch == CmdDone /\ AckPos > 0 /\ call.res.errno = "EPROTO"

\* C13: the checksum of a response is verified before the response is
\* acknowledged: a mismatch fails with EPROTO without the reply [0x00, 0xCC]
\* written, and a call that returns a decoded payload wrote the reply once,
\* after reading size-2 payload bytes.
C13_ChecksumBeforeReplyAck ==
    /\ ChecksumMismatch => (call.res.ret = -1 /\ ReplyAcks = {})
    /\ (CmdDone /\ call.res.ret > 0) =>
          /\ Cardinality(ReplyAcks) = 1
          /\ HasSizeByte /\ Len(call.res.out) = SizeByte - 2
          /\ call.res.nreads = AckPos + SizeByte

---------------------------------------------------------------------------
(* C14 *)

\* C14: a response-size byte below 2 makes sbl_send_cmd fail with
\* ProtocolError (EPROTO); the call never succeeds on such a byte.
C14_ShortSizeByteRejected ==
    (HasSizeByte /\ SizeByte < 2) =>
        (call.res.ret = -1 /\ call.res.errno = "EPROTO")

---------------------------------------------------------------------------
(* C15 *)

\* the serial_open_configure calls of the scan, in order
ScanOpens == SelectSeq(scan.events, LAMBDA e : e.ev = "open")

\* the positions of the closes that follow a probe that was ACKed
AckedCloses ==
    { p \in 1 .. Len(scan.events) :
        scan.events[p].ev = "close" /\ scan.events[p].ok }

\* C15: sbl_autobaud_scan tries the candidates in list order; every candidate
\* up to the first at which sbl_autobaud succeeds is opened once and closed
\* once before the next open; the scan returns success with *baud_ok set to
\* that rate and opens nothing after it, and returns failure with *baud_ok
\* unmodified when no candidate succeeds.  (A candidate whose open fails
\* yields no handle, so there is nothing to close.)
C15_ScanOpensInOrder ==
    scan.pc \notin {"none"} =>
        LET E == scan.events IN
        /\ Len(ScanOpens) <= Len(scan.bauds)
        /\ \A j \in 1 .. Len(ScanOpens) : ScanOpens[j].baud = scan.bauds[j]
        /\ \A p \in 1 .. Len(E) :
              /\ (E[p].ev = "open" /\ E[p].ok /\ p < Len(E)) =>
                    (E[p + 1].ev = "close" /\ E[p + 1].baud = E[p].baud)
              /\ E[p].ev = "close" =>
                    (p > 1 /\ E[p - 1] = Opened(E[p].baud, TRUE))
        /\ scan.fd <=> (E # <<>> /\ E[Len(E)].ev = "open" /\ E[Len(E)].ok)
        /\ AckedCloses # {} =>
              (AckedCloses = {Len(E)} /\ scan.pc = "done" /\ scan.ret = 0)
        /\ (scan.pc = "done" /\ scan.ret = 0) =>
              /\ AckedCloses = {Len(E)}
              /\ scan.baud_ok = E[Len(E)].baud
              /\ scan.baud_ok = scan.bauds[Len(ScanOpens)]
        /\ (scan.pc = "done" /\ scan.ret = -1) =>
              /\ AckedCloses = {}
              /\ Len(ScanOpens) = Len(scan.bauds)
              /\ scan.baud_ok = scan.found0
        /\ scan.pc # "done" => scan.baud_ok = scan.found0

\* the list [9600, 115200, 9600] with a device that ACKs at 115200 only
C15_Witness ==
    /\ scan.pc = "done" /\ scan.ret = 0 /\ scan.baud_ok = 115200
    /\ scan.bauds = <<9600, 115200, 9600>>
    /\ scan.events = << Opened(9600, TRUE), Closed(9600, FALSE),
                        Opened(115200, TRUE), Closed(115200, TRUE) >>

---------------------------------------------------------------------------
(* C16 *)

\* the transport handles that are open: main's and the scan's
OpenHandles == (IF tool.fd THEN 1 ELSE 0) + (IF scan.fd THEN 1 ELSE 0)

\* C16: at most one transport handle is open at any instant of one run of
\* the tool, the autobaud scan subcommand included.
C16_OneOpenHandle == OpenHandles <= 1

---------------------------------------------------------------------------
(* C17 *)

\* the command frames written by the call that returned at log[i]
CmdFramesOf(i) ==
    { j \in 1 .. i - 1 :
        IsCmd(log[j]) /\ \A k \in j + 1 .. i - 1 : log[k].ev # "r" }

\* the command function that returned at log[i] failed (NACK, timeout or
\* transport error: it returned -1)
FailedAt(i) == log[i].ev = "r" /\ log[i].ret # 0

\* each call wrote its command frame at most once, and nothing was sent
\* after a call that failed
NoRetry ==
    /\ \A i \in Pos : log[i].ev = "r" => Cardinality(CmdFramesOf(i)) <= 1
    /\ \A i \in Pos : FailedAt(i) => (i = Len(log) /\ pc = "done")

---------------------------------------------------------------------------
(* C18 *)

\* the sbl_program subcommand has exited
ProgramExited == tool.cmd = "sbl_program" /\ tool.pc = "exit"

\* C18: the sbl_program subcommand exits with a non-zero code whenever
\* sbl_program_binary fails or the image file cannot be loaded, and exits 0
\* only when the image was written.
C18_ProgramFailureExitsNonZero ==
    ProgramExited =>
        /\ (pc = "done" /\ ret # 0) => tool.rc # 0
        /\ ~tool.loaded => tool.rc # 0
        /\ tool.rc = 0 => (pc = "done" /\ ret = 0 /\ tool.loaded)

---------------------------------------------------------------------------
(* C19 *)

\* floor(100 * o / total_len)
Percent(o) == (100 * o) \div total_len

\* the offsets reached by the confirmed chunks so far
ConfirmedOffsets == { o \in 1 .. off : o % MaxChunk = 0 \/ o = total_len }

\* C19: after each confirmed chunk p = floor(100 * off / total_len) is
\* computed; whenever p differs from the percentage recorded before, a report
\* carrying the new value p is emitted; a successful run with total_len > 0
\* reports 100 last.
C19_ProgressReportsNewValue ==
    /\ off > 0 => perc = Percent(off)
    /\ \A i \in 1 .. Len(progress) :
          /\ progress[i].off \in ConfirmedOffsets
          /\ progress[i].printed = Percent(progress[i].off)
    /\ \A o \in ConfirmedOffsets :
          Percent(o) # Percent(IF o > MaxChunk THEN o - MaxChunk ELSE 0) =>
              \E i \in 1 .. Len(progress) : progress[i].off = o
    /\ (Returned /\ ret = 0 /\ total_len > 0) =>
          (progress # <<>> /\ progress[Len(progress)].printed = 100)

---------------------------------------------------------------------------
(* C20 *)

RoundDone == call.fn = "erase_len" /\ call.done

\* C20: before the cap, erase_len is image_len rounded up to the next
\* multiple of page_size, for every page_size > 0 and every image_len, in
\* 32-bit unsigned arithmetic.
C20_EraseLenIsRoundUp ==
    RoundDone => call.res = U32(RoundUp(call.image_len, call.page_size))

---------------------------------------------------------------------------
(* C21 *)

\* the poll slices a budget of timeout_ms pays for
Budget(timeout_ms) == IF timeout_ms <= 0 THEN 0 ELSE CeilDiv(timeout_ms, step_ms)

\* how long the stand-alone call took (ms): the reads it made, those past the
\* end of ack.reads being silent slices
Elapsed ==
    Arrival(Min(ack.n, Len(ack.reads)))
    + (IF ack.n > Len(ack.reads) THEN (ack.n - Len(ack.reads)) * step_ms ELSE 0)

\* the transport of the stand-alone call never emits data
Silent == \A i \in 1 .. Len(ack.reads) : ack.reads[i] = RD_TIMEOUT

\* C21: the budget of sbl_wait_ack is a count of 20 ms poll slices that noise
\* neither resets nor extends: a call makes at most ceil(timeout_ms/20) reads
\* whatever arrives and none when timeout_ms <= 0; against a silent transport
\* it makes exactly ceil(timeout_ms/20) reads of 20 ms each and returns
\* Timeout, no earlier than timeout_ms and less than one slice later; a read
\* error ends the call at once with failure.
C21_BudgetIsSliceCount ==
    ack.done =>
        /\ ack.n <= Budget(ack.timeout_ms)
        /\ ack.timeout_ms <= 0 => ack.n = 0 /\ ack.ret = -1
        /\ Silent =>
              /\ ack.n = Budget(ack.timeout_ms)
              /\ ack.ret = -1 /\ ack.errno = "ETIMEDOUT"
              /\ Elapsed = ack.n * step_ms
              /\ ack.timeout_ms > 0 =>
                    /\ ack.timeout_ms <= Elapsed
                    /\ Elapsed < ack.timeout_ms + step_ms
        /\ \A i \in 1 .. Min(ack.n, Len(ack.reads)) :
              ack.reads[i] = RD_ERROR =>
                  ack.n = i /\ ack.ret = -1 /\ ack.errno # "ETIMEDOUT"

\* C21 witness: a call with timeout_ms = 100 on a transport silent for six
\* slices has returned after its fifth read
C21_Witness ==
    /\ ack.done
    /\ ack.timeout_ms = 100
    /\ Len(ack.reads) = MaxSilent
    /\ Silent
    /\ ack.n = 5
    /\ Elapsed = 100

---------------------------------------------------------------------------
(* C22 *)

ProbeDone == call.fn = "autobaud" /\ call.done

\* the reads of the stand-alone sbl_autobaud, among those its budget pays
\* for, that return 0xCC or a read error
ProbeEnds ==
    { i \in 1 .. Min(Len(call.reads), Budget(call.timeout_ms)) :
        call.reads[i] \in {SBL_ACK, RD_ERROR} }

\* C22: sbl_autobaud writes exactly two 0x55 bytes before its first read, then
\* succeeds exactly when a 0xCC is read within ceil(timeout_ms/20) poll
\* slices; any other byte, 0x00 and 0x33 included, is discarded and does not
\* end the wait; when either write fails it fails without reading.
C22_AutobaudHandshake ==
    ProbeDone =>
        /\ \A i \in 1 .. Len(call.res.writes) : call.res.writes[i] = 85
        /\ call.nw < 2 =>
              /\ call.res.ret = -1
              /\ call.res.nreads = 0
              /\ Len(call.res.writes) = call.nw
              /\ call.res.nwrites = call.nw + 1
        /\ call.nw = 2 =>
              /\ Len(call.res.writes) = 2 /\ call.res.nwrites = 2
              /\ call.res.nreads <= Budget(call.timeout_ms)
              /\ IF ProbeEnds = {}
                 THEN /\ call.res.ret = -1
                      /\ call.res.nreads = Budget(call.timeout_ms)
                 ELSE LET first == CHOOSE i \in ProbeEnds :
                                       \A j \in ProbeEnds : i <= j
                      IN  /\ call.res.nreads = first
                          /\ call.res.ret = 0 <=> call.reads[first] = SBL_ACK

\* C22 witness: a call that wrote both bytes and read 0x00, 0x33 and then 0xCC
\* has returned success
C22_Witness ==
    /\ ProbeDone
    /\ call.nw = 2
    /\ call.reads = <<0, SBL_NACK, SBL_ACK>>
    /\ call.res.ret = 0
    /\ call.res.nreads = 3

---------------------------------------------------------------------------
(* C23 *)

\* a download frame has been written
DownloadIssued == OpPos(CMD_DOWNLOAD) # {}

\* the offset of the k-th chunk sent: the bytes of the chunks before it
RECURSIVE ChunkOffset(_)
ChunkOffset(k) == IF k = 1 THEN 0 ELSE ChunkOffset(k - 1) + Len(SentChunks[k - 1])

\* the flash addresses the send_data commands sent so far write to
ProgrammedAddrs ==
    UNION { { arg.base_addr + ChunkOffset(k) + j - 1 : j \in 1 .. Len(SentChunks[k]) }
              : k \in DOMAIN SentChunks }

\* the flash addresses of the pages erased so far
ErasedRegion ==
    UNION { ErasedAddrs[m] .. ErasedAddrs[m] + arg.page_size - 1
              : m \in DOMAIN ErasedAddrs }

\* C23: sbl_program_binary never programs the final (CCFG) page or a page it
\* did not erase: whenever a download is issued,
\* base_addr + total_len <= base_addr + erase_len <= flash_size - page_size,
\* and every byte sent by send_data targets an address in the erased region.
\* (Stated for base addresses that are aligned and below the final page.)
C23_ProgramsOnlyErasedPages ==
    (Aligned /\ arg.base_addr + arg.page_size <= arg.flash_size /\ DownloadIssued)
    => /\ arg.base_addr + total_len <= arg.base_addr + erase_len
       /\ arg.base_addr + erase_len <= arg.flash_size - arg.page_size
       /\ ProgrammedAddrs \subseteq ErasedRegion
       /\ \A x \in ProgrammedAddrs : x < arg.flash_size - arg.page_size

---------------------------------------------------------------------------
(* C24 *)

\* the erase loop's counter wrapped: a page below base_addr was erased
EraseWrapped == \E k \in DOMAIN ErasedAddrs : ErasedAddrs[k] < arg.base_addr

\* C24: every call of sbl_program_binary with page_size > 0 returns, given
\* that every transport call returns: the erase loop, the chunk loop and the
\* handshakes take finitely many steps whatever flash_size, page_size,
\* image_len and base_addr are, the wraparound of the erase loop's address
\* counter included.
C24_ProgramTerminates ==
    (pc = "start" /\ arg.page_size > 0) ~> Returned

\* C24 witness: a call whose erase counter wrapped has gone through the chunk
\* loop and returned
C24_Witness ==
    /\ Returned /\ ret = 0
    /\ EraseWrapped
    /\ Cardinality(OpPos(CMD_SECTOR_ERASE)) = 3
    /\ Cardinality(OpPos(CMD_SEND_DATA)) = 1

---------------------------------------------------------------------------
(* C25 *)

\* the commands of the session that have returned
SessionDone == IF call.fn = "session" THEN call.done ELSE <<>>

\* the sbl_wait_ack of the command d decided on a 0xCC or a 0x33
DecidedOnByte(d) == d.ack.ret = 0 \/ d.ack.errno = "EPROTO"

\* C25: in a sequence of commands on one port, the 0xCC or 0x33 on which
\* sbl_wait_ack decides command k is the device's acknowledgement of command
\* k: a byte of an earlier command's response frame (one that came after the
\* 50 ms response window, a payload left unread) is never taken for it.
C25_AckBelongsToCommand ==
    \A k \in DOMAIN SessionDone :
        DecidedOnByte(SessionDone[k]) => SessionDone[k].ack.n > SessionDone[k].stale

===========================================================================
